---- MODULE Spec2Model ----
(***************************************************************************)
(* Model of src/app.js (the later revision of the file, lines 335-684):    *)
(* an Express application over two Mongoose collections, employees and     *)
(* movies.  JavaScript values are tagged records so that the number 42 and *)
(* the string "42" are different values; strings are sequences of          *)
(* one-character strings so that trimming, Number() and the validators are *)
(* computed character by character.                                        *)
(***************************************************************************)
EXTENDS Integers, Sequences, FiniteSets, TLC

\* ---------------------------------------------------------------- bounds
\* ObjectIds the stores can hand out (seeded documents included).
MaxOid == 2
\* Documents already in the movies collection when the process starts.
MaxSeed == 1
\* POST /api/employees requests suspended between create and find.
MaxPending == 1

\* ------------------------------------------------------ program constants
\* Movie.find({}).limit(200)
ListCap == 200
\* Movie.find({}).limit(50)
HomeCap == 50

\* ------------------------------------------------------ JavaScript values
Undef == [t |-> "undefined", n |-> 0, s |-> <<>>]
Null == [t |-> "null", n |-> 0, s |-> <<>>]
NaN == [t |-> "nan", n |-> 0, s |-> <<>>]
Num(k) == [t |-> "number", n |-> k, s |-> <<>>]
Str(cs) == [t |-> "string", n |-> 0, s |-> cs]
Oid(k) == [t |-> "oid", n |-> k, s |-> <<>>]

\* JavaScript truthiness (ToBoolean).
Truthy(v) ==
  CASE v.t = "string" -> v.s # <<>>
    [] v.t = "number" -> v.n # 0
    [] v.t = "oid" -> TRUE
    [] OTHER -> FALSE

\* v != null
NotNullish(v) == v.t # "undefined" /\ v.t # "null"

DigitChars == <<"0", "1", "2", "3", "4", "5", "6", "7", "8", "9">>
HexChars == DigitChars \o <<"a", "b", "c", "d", "e", "f">>
IsDigit(c) == \E i \in 1..10 : DigitChars[i] = c
IsHex(c) == \E i \in 1..16 : HexChars[i] = c
HexVal(c) == (CHOOSE i \in 1..16 : HexChars[i] = c) - 1
IsSpace(c) == c = " "

RECURSIVE TrimLeft(_)
TrimLeft(cs) ==
  IF cs # <<>> /\ IsSpace(Head(cs)) THEN TrimLeft(Tail(cs)) ELSE cs

RECURSIVE TrimRight(_)
TrimRight(cs) ==
  IF cs # <<>> /\ IsSpace(cs[Len(cs)])
  THEN TrimRight(SubSeq(cs, 1, Len(cs) - 1))
  ELSE cs

\* String.prototype.trim
Trim(cs) == TrimRight(TrimLeft(cs))

AllDigits(cs) == cs # <<>> /\ \A i \in 1..Len(cs) : IsDigit(cs[i])

RECURSIVE DecVal(_)
DecVal(cs) ==
  IF cs = <<>> THEN 0
  ELSE 10 * DecVal(SubSeq(cs, 1, Len(cs) - 1)) + HexVal(cs[Len(cs)])

\* StringToNumber on strings made of digits, spaces, signs and letters that
\* spell neither Infinity nor a radix prefix nor an exponent.
StringToNumber(cs) ==
  LET t == Trim(cs)
      signed == t # <<>> /\ (Head(t) = "-" \/ Head(t) = "+")
      body == IF signed THEN Tail(t) ELSE t
  IN IF t = <<>> THEN Num(0)
     ELSE IF ~AllDigits(body) THEN NaN
     ELSE IF signed /\ Head(t) = "-" THEN Num(0 - DecVal(body))
     ELSE Num(DecVal(body))

\* A Number() that yields 0 where the real one yields NaN.
NumberZeroForNaN(v) ==
  CASE v.t = "string" -> IF StringToNumber(v.s) = NaN THEN Num(0) ELSE StringToNumber(v.s)
    [] v.t = "number" -> v
    [] v.t = "null" -> Num(0)
    [] OTHER -> Num(0)

\* Number(v)
Number(v) ==
  CASE v.t = "string" -> StringToNumber(v.s)
    [] v.t = "number" -> v
    [] v.t = "null" -> Num(0)
    [] OTHER -> NaN

RECURSIVE NatToChars(_)
NatToChars(k) ==
  IF k < 10 THEN <<DigitChars[k + 1]>>
  ELSE NatToChars(k \div 10) \o <<DigitChars[(k % 10) + 1]>>

\* String(v) as express-validator applies it before validating a field.
ToStr(v) ==
  CASE v.t = "string" -> v.s
    [] v.t = "number" -> IF v.n < 0 THEN <<"-">> \o NatToChars(0 - v.n) ELSE NatToChars(v.n)
    [] OTHER -> <<>>

\* validator.js isNumeric on a string without a decimal point:
\* /^[+-]?([0-9]*[.])?[0-9]+$/
isNumeric(cs) ==
  LET signed == cs # <<>> /\ (Head(cs) = "-" \/ Head(cs) = "+")
  IN AllDigits(IF signed THEN Tail(cs) ELSE cs)

\* notEmpty
notEmpty(cs) == cs # <<>>

\* ------------------------------------------------------------ ObjectIds
\* The 24-character hex string of ObjectId number k (k < 16).
OidStr(k) ==
  <<"0", "0", "0", "0", "0", "0", "0", "0", "0", "0", "0", "0",
    "0", "0", "0", "0", "0", "0", "0", "0", "0", "0", "0">> \o <<HexChars[k + 1]>>

RECURSIVE HexNum(_)
HexNum(cs) ==
  IF cs = <<>> THEN 0
  ELSE 16 * HexNum(SubSeq(cs, 1, Len(cs) - 1)) + HexVal(cs[Len(cs)])

\* Mongoose's cast of a filter's _id: a 24-character hex string casts, any
\* other string a request can carry raises CastError.
IsObjectIdString(v) ==
  v.t = "string" /\ Len(v.s) = 24 /\ \A i \in 1..24 : IsHex(v.s[i])
castObjectId(v) == Oid(HexNum(v.s))

\* ------------------------------------------------------------ documents
\* A document is a function from its field names to values; every document
\* has _id.  pairs is a sequence of <<name, value>>.
DocOf(pairs) ==
  [f \in {pairs[i][1] : i \in 1..Len(pairs)} |->
     pairs[CHOOSE i \in 1..Len(pairs) : pairs[i][1] = f][2]]

NoDoc == DocOf(<<<<"_id", Null>>>>)

\* obj[n]
Get(obj, n) == IF n \in DOMAIN obj THEN obj[n] ELSE Undef

\* The pairs whose value is not undefined: Mongoose leaves undefined keys out
\* of a created document and out of $set.
Defined(pairs) == SelectSeq(pairs, LAMBDA p : p[2] # Undef)

\* { $set: pairs } applied to one document.
ApplySet(doc, pairs) ==
  LET ps == Defined(pairs)
      names == {ps[i][1] : i \in 1..Len(ps)}
  IN [f \in DOMAIN doc \cup names |->
        IF f \in names THEN DocOf(ps)[f] ELSE doc[f]]

\* A filter is the sequence of its $or clauses (one clause when there is no
\* $or); a document matches when one clause's path holds the clause's value.
Clause(path, val) == [path |-> path, val |-> val]
Matches(doc, filter) ==
  \E i \in 1..Len(filter) : Get(doc, filter[i].path) = filter[i].val
MatchIdx(coll, filter) == {i \in 1..Len(coll) : Matches(coll[i], filter)}

RemoveAt(coll, i) == SubSeq(coll, 1, i - 1) \o SubSeq(coll, i + 1, Len(coll))
Limit(coll, k) == SubSeq(coll, 1, IF Len(coll) < k THEN Len(coll) ELSE k)

\* Model.findById / Model.findOne: the documents the store may return, NoDoc
\* when none matches.  Without a sort the store chooses among the matches.
findOne(coll, filter) ==
  IF MatchIdx(coll, filter) = {} THEN {NoDoc}
  ELSE {coll[i] : i \in MatchIdx(coll, filter)}

\* An update that writes every matching document (updateMany).
updateEveryMatch(coll, filter, pairs) ==
  IF MatchIdx(coll, filter) = {} THEN {[coll |-> coll, doc |-> NoDoc]}
  ELSE {[coll |-> [j \in 1..Len(coll) |->
                     IF j \in MatchIdx(coll, filter) THEN ApplySet(coll[j], pairs) ELSE coll[j]],
         doc |-> ApplySet(coll[i], pairs)] : i \in MatchIdx(coll, filter)}

\* Model.findOneAndUpdate(filter, { $set }, { new: true }): no upsert.
findOneAndUpdate(coll, filter, pairs) ==
  IF MatchIdx(coll, filter) = {} THEN {[coll |-> coll, doc |-> NoDoc]}
  ELSE {[coll |-> [coll EXCEPT ![i] = ApplySet(coll[i], pairs)],
         doc |-> ApplySet(coll[i], pairs)] : i \in MatchIdx(coll, filter)}

\* A delete that removes every matching document (deleteMany).
deleteEveryMatch(coll, filter) ==
  {[coll |-> SelectSeq(coll, LAMBDA d : ~Matches(d, filter)),
    deletedCount |-> Cardinality(MatchIdx(coll, filter))]}

\* Model.deleteOne(filter)
deleteOne(coll, filter) ==
  IF MatchIdx(coll, filter) = {} THEN {[coll |-> coll, deletedCount |-> 0]}
  ELSE {[coll |-> RemoveAt(coll, i), deletedCount |-> 1] : i \in MatchIdx(coll, filter)}

\* { _id: id } after Mongoose's cast of the filter.
IdFilter(id) == <<Clause("_id", castObjectId(id))>>

\* --------------------------------------------------- requests, responses
EmptyReq ==
  [id |-> Undef, movie_id |-> Undef, title |-> Undef, movie_title |-> Undef,
   Released |-> Undef, name |-> Undef, salary |-> Undef, age |-> Undef]

\* What a step did: kind is "json", "text", "render", "redirect", "error"
\* (the JSON error body), or "await" for a handler suspended at a store call.
\* bodyError and bodyStatus are the error and status fields of a JSON error
\* body; thrown is the status carried by the error that reached the error
\* handler, NoErr when none did.
NoErr == -1
Res(route, req, status, kind, calls) ==
  [route |-> route, req |-> req, status |-> status, kind |-> kind,
   calls |-> calls, list |-> <<>>, doc |-> NoDoc, details |-> <<>>, created |-> 0,
   bodyError |-> FALSE, bodyStatus |-> 0, thrown |-> NoErr]

\* new Error(..) with err.status and err.details; status 0 is an error that
\* carries none (Mongoose's CastError).
HttpError(status, details) == [status |-> status, details |-> details]
CastError == HttpError(0, <<>>)

\* An error handler that answers HTTP 500 whatever the error carries, while
\* the body still reports err.status || 500.
errorHandlerAlways500(err, route, req, calls) ==
  [Res(route, req, 500, "error", calls)
     EXCEPT !.details = err.details, !.bodyError = TRUE,
            !.bodyStatus = IF err.status # 0 THEN err.status ELSE 500,
            !.thrown = err.status]

\* The centralized error handler, reached through asyncHandler's catch(next):
\* const status = err.status || 500; res.status(status).json({ error: true,
\* status, .. }).
errorHandler(err, route, req, calls) ==
  [Res(route, req, IF err.status # 0 THEN err.status ELSE 500, "error", calls)
     EXCEPT !.details = err.details, !.bodyError = TRUE,
            !.bodyStatus = IF err.status # 0 THEN err.status ELSE 500,
            !.thrown = err.status]

\* ---------------------------------------------------------------- state
VARIABLES
  Movie,       \* whether the Movie model exists (MONGODB_URI_MOVIES was set)
  employees,   \* the employees collection, in natural order
  movies,      \* the movies collection, in natural order
  nextOid,     \* the next ObjectId the driver generates
  pending,     \* POST /api/employees handlers between create and find
  res,         \* the outcome of the last step
  empCreated,  \* history: the ids POST /api/employees created
  delOk        \* history: successful DELETE /api/employees responses per id

vars == <<Movie, employees, movies, nextOid, pending, res, empCreated, delOk>>

\* ------------------------------------------------------ employee routes
\* Mongoose casts of the Employee schema paths.
castString(v) == Str(ToStr(v))
NumberCastFails(v) == v # Undef /\ Number(v) = NaN

\* express-validator: the fields whose chain failed, in chain order.
employeeErrors(req) ==
  SelectSeq(<<"name", "salary", "age">>,
            LAMBDA f : CASE f = "name" -> ~notEmpty(Trim(ToStr(req.name)))
                         [] f = "salary" -> ~isNumeric(ToStr(req.salary))
                         [] f = "age" -> ~isNumeric(ToStr(req.age)))

\* GET /api/employees
getEmployees ==
  [Res("GET /api/employees", EmptyReq, 200, "json", 1) EXCEPT !.list = employees]

\* GET /api/employees/:id
getEmployee(req) ==
  IF ~IsObjectIdString(req.id)
  THEN {errorHandler(CastError, "GET /api/employees/:id", req, 1)}
  ELSE {IF doc = NoDoc
        THEN errorHandler(HttpError(404, <<>>), "GET /api/employees/:id", req, 1)
        ELSE [Res("GET /api/employees/:id", req, 200, "json", 1) EXCEPT !.doc = doc]
        : doc \in findOne(employees, IdFilter(req.id))}

\* Employee.create inserting the document twice.
createEmployeeTwice(req, oid) ==
  employees \o
  <<DocOf(<<<<"_id", Oid(oid)>>, <<"name", Str(Trim(ToStr(req.name)))>>,
            <<"salary", Number(req.salary)>>, <<"age", Number(req.age)>>>>),
    DocOf(<<<<"_id", Oid(oid)>>, <<"name", Str(Trim(ToStr(req.name)))>>,
            <<"salary", Number(req.salary)>>, <<"age", Number(req.age)>>>>)>>

\* Employee.create({ name, salary, age }) after body('name').trim() rewrote
\* req.body.name; salary and age are cast to Number.
createEmployee(req, oid) ==
  Append(employees,
         DocOf(<<<<"_id", Oid(oid)>>, <<"name", Str(Trim(ToStr(req.name)))>>,
                 <<"salary", Number(req.salary)>>, <<"age", Number(req.age)>>>>))

\* POST /api/employees up to its first await that can be observed: validation,
\* then Employee.create.  Yields the response (400) or the suspended handler.
postEmployeesSkipValidation(req, oid) ==
  [res |-> [Res("POST /api/employees", req, 0, "await", 1) EXCEPT !.created = oid],
   employees |-> createEmployee(req, oid), created |-> TRUE]

postEmployees(req, oid) ==
  IF employeeErrors(req) # <<>>
  THEN [res |-> errorHandler(HttpError(400, employeeErrors(req)), "POST /api/employees", req, 0),
        employees |-> employees, created |-> FALSE]
  ELSE [res |-> [Res("POST /api/employees", req, 0, "await", 1) EXCEPT !.created = oid],
        employees |-> createEmployee(req, oid), created |-> TRUE]

\* POST /api/employees after create: Employee.find({}) and res.json(all).
postEmployeesFind(p) ==
  [Res("POST /api/employees", p.req, 200, "json", 2)
     EXCEPT !.list = employees, !.created = p.created]

\* PUT /api/employees/:id: findByIdAndUpdate(id, { name, salary, age }).
putEmployee(req) ==
  IF ~IsObjectIdString(req.id) \/ NumberCastFails(req.salary) \/ NumberCastFails(req.age)
  THEN {[res |-> errorHandler(CastError, "PUT /api/employees/:id", req, 1),
         employees |-> employees]}
  ELSE {[res |-> IF o.doc = NoDoc
                 THEN errorHandler(HttpError(404, <<>>), "PUT /api/employees/:id", req, 1)
                 ELSE [Res("PUT /api/employees/:id", req, 200, "text", 1) EXCEPT !.doc = o.doc],
         employees |-> o.coll]
        : o \in findOneAndUpdate(employees, IdFilter(req.id),
                 <<<<"name", IF req.name = Undef THEN Undef ELSE castString(req.name)>>,
                   <<"salary", IF req.salary = Undef THEN Undef ELSE Number(req.salary)>>,
                   <<"age", IF req.age = Undef THEN Undef ELSE Number(req.age)>>>>)}

\* A DELETE /api/employees/:id that never looks at deletedCount.
deleteEmployeeAlwaysOk(req) ==
  IF ~IsObjectIdString(req.id)
  THEN {[res |-> errorHandler(CastError, "DELETE /api/employees/:id", req, 1),
         employees |-> employees]}
  ELSE {[res |-> Res("DELETE /api/employees/:id", req, 200, "text", 1),
         employees |-> r.coll]
        : r \in deleteOne(employees, IdFilter(req.id))}

\* DELETE /api/employees/:id: one await, Employee.deleteOne, which the store
\* executes atomically; the response depends on its result alone.
deleteEmployee(req) ==
  IF ~IsObjectIdString(req.id)
  THEN {[res |-> errorHandler(CastError, "DELETE /api/employees/:id", req, 1),
         employees |-> employees]}
  ELSE {[res |-> IF r.deletedCount = 0
                 THEN errorHandler(HttpError(404, <<>>), "DELETE /api/employees/:id", req, 1)
                 ELSE Res("DELETE /api/employees/:id", req, 200, "text", 1),
         employees |-> r.coll]
        : r \in deleteOne(employees, IdFilter(req.id))}

\* --------------------------------------------------------- movie helpers
\* ensureMovieConn's response when Movie is null.
ensureMovieConn(route, req) ==
  [Res(route, req, 503, "error", 0) EXCEPT !.bodyError = TRUE, !.bodyStatus = 503]

\* A filter whose numeric branch falls back to 0: Number(movie_id) || 0.
movieIdFilterZeroForNaN(movie_id) ==
  <<Clause("movie_id", NumberZeroForNaN(movie_id)), Clause("movie_id", movie_id)>>

\* A filter with the numeric branch only.
movieIdFilterNumberOnly(movie_id) == <<Clause("movie_id", Number(movie_id))>>

\* movieIdFilter: { $or: [{ movie_id: Number(movie_id) }, { movie_id }] }
movieIdFilter(movie_id) ==
  <<Clause("movie_id", Number(movie_id)), Clause("movie_id", movie_id)>>

\* { $or: [{ movie_title: title }, { title }] }
titleFilter(title) == <<Clause("movie_title", title), Clause("title", title)>>

\* Movie.create({ movie_id, movie_title, Released })
createMovie(oid, movie_id, movie_title, Released) ==
  DocOf(<<<<"_id", Oid(oid)>>>> \o
        Defined(<<<<"movie_id", movie_id>>, <<"movie_title", movie_title>>,
                  <<"Released", Released>>>>))

\* names.find(n => obj[n] != null): the index of the first such name, 0 for
\* undefined.
RECURSIVE findFrom(_, _, _)
findFrom(obj, names, i) ==
  IF i > Len(names) THEN 0
  ELSE IF NotNullish(Get(obj, names[i])) THEN i
  ELSE findFrom(obj, names, i + 1)

\* A pick that tests the value's truthiness instead of != null.
RECURSIVE findTruthyFrom(_, _, _)
findTruthyFrom(obj, names, i) ==
  IF i > Len(names) THEN 0
  ELSE IF Truthy(Get(obj, names[i])) THEN i
  ELSE findTruthyFrom(obj, names, i + 1)

pickTruthy(obj, names, fb) ==
  IF findTruthyFrom(obj, names, 1) # 0
  THEN Get(obj, names[findTruthyFrom(obj, names, 1)])
  ELSE fb

\* pick(obj, names, fb): the ternary tests the found name, a non-empty string
\* or undefined.
pick(obj, names, fb) ==
  IF findFrom(obj, names, 1) # 0 /\ names[findFrom(obj, names, 1)] # ""
  THEN Get(obj, names[findFrom(obj, names, 1)])
  ELSE fb

titleNames == <<"movie_title", "title", "Title", "name", "Name", "MovieTitle">>
idNames == <<"movie_id", "movieId", "movieid", "MovieID", "id", "Id", "ID">>
releasedNames ==
  <<"Released", "released", "release_year", "releaseYear", "year", "Year",
    "ReleaseDate", "release_date">>
NoTitle == Str(<<"(", "n", "o", " ", "t", "i", "t", "l", "e", ")">>)

\* raw.map(d => ({ _id, movie_title, movie_id, Released }))
normalize(d) ==
  DocOf(<<<<"_id", IF NotNullish(Get(d, "_id")) THEN Str(OidStr(d["_id"].n)) ELSE Undef>>,
          <<"movie_title", pick(d, titleNames, NoTitle)>>,
          <<"movie_id", pick(d, idNames, Str(<<>>))>>,
          <<"Released", pick(d, releasedNames, Str(<<>>))>>>>)

\* ----------------------------------------------------- movie REST routes
\* GET /api/movies
getMovies ==
  IF ~Movie THEN ensureMovieConn("GET /api/movies", EmptyReq)
  ELSE [Res("GET /api/movies", EmptyReq, 200, "json", 1) EXCEPT !.list = Limit(movies, ListCap)]

\* The lookup of GET /api/movies/find once a filter is chosen.
findOr404(route, req, filter) ==
  {IF doc = NoDoc THEN errorHandler(HttpError(404, <<>>), route, req, 1)
   ELSE [Res(route, req, 200, "json", 1) EXCEPT !.doc = doc]
   : doc \in findOne(movies, filter)}

\* GET /api/movies/find
getMoviesFind(req) ==
  IF ~Movie THEN {ensureMovieConn("GET /api/movies/find", req)}
  ELSE IF Truthy(req.id)
  THEN IF ~IsObjectIdString(req.id)
       THEN {errorHandler(CastError, "GET /api/movies/find", req, 1)}
       ELSE findOr404("GET /api/movies/find", req, IdFilter(req.id))
  ELSE IF Truthy(req.movie_id)
  THEN findOr404("GET /api/movies/find", req, movieIdFilter(req.movie_id))
  ELSE IF Truthy(req.title)
  THEN findOr404("GET /api/movies/find", req, titleFilter(req.title))
  ELSE {errorHandler(HttpError(400, <<>>), "GET /api/movies/find", req, 0)}

\* express-validator: body('movie_title').trim().notEmpty()
movieErrors(req) ==
  IF notEmpty(Trim(ToStr(req.movie_title))) THEN <<>> ELSE <<"movie_title">>

\* A POST /api/movies that validates before it looks at the connection.
postMoviesValidateFirst(req, oid) ==
  IF movieErrors(req) # <<>>
  THEN [res |-> errorHandler(HttpError(400, movieErrors(req)), "POST /api/movies", req, 0),
        movies |-> movies]
  ELSE IF ~Movie THEN [res |-> ensureMovieConn("POST /api/movies", req), movies |-> movies]
  ELSE [res |-> [Res("POST /api/movies", req, 201, "json", 1)
                   EXCEPT !.doc = createMovie(oid, req.movie_id, Str(Trim(ToStr(req.movie_title))), req.Released),
                          !.created = oid],
        movies |-> Append(movies, createMovie(oid, req.movie_id, Str(Trim(ToStr(req.movie_title))), req.Released))]

\* A POST /api/movies that creates the document whatever validation found.
postMoviesSkipValidation(req, oid) ==
  IF ~Movie THEN [res |-> ensureMovieConn("POST /api/movies", req), movies |-> movies]
  ELSE [res |-> [Res("POST /api/movies", req, 201, "json", 1)
                   EXCEPT !.doc = createMovie(oid, req.movie_id, Str(Trim(ToStr(req.movie_title))), req.Released),
                          !.created = oid],
        movies |-> Append(movies, createMovie(oid, req.movie_id, Str(Trim(ToStr(req.movie_title))), req.Released))]

\* POST /api/movies
postMovies(req, oid) ==
  IF ~Movie THEN [res |-> ensureMovieConn("POST /api/movies", req), movies |-> movies]
  ELSE IF movieErrors(req) # <<>>
  THEN [res |-> errorHandler(HttpError(400, movieErrors(req)), "POST /api/movies", req, 0),
        movies |-> movies]
  ELSE [res |-> [Res("POST /api/movies", req, 201, "json", 1)
                   EXCEPT !.doc = createMovie(oid, req.movie_id, Str(Trim(ToStr(req.movie_title))), req.Released),
                          !.created = oid],
        movies |-> Append(movies, createMovie(oid, req.movie_id, Str(Trim(ToStr(req.movie_title))), req.Released))]

\* A filter that prefers movie_id over id.
updateFilterMovieIdFirst(req) ==
  IF Truthy(req.movie_id) THEN movieIdFilter(req.movie_id) ELSE IdFilter(req.id)

\* const filter = id ? { _id: id } : movieIdFilter(movie_id), cast by Mongoose
updateFilter(req) ==
  IF Truthy(req.id) THEN IdFilter(req.id) ELSE movieIdFilter(req.movie_id)
filterCastFails(req) == Truthy(req.id) /\ ~IsObjectIdString(req.id)

\* The update of PUT /api/movies and POST /ui/movie/update:
\* findOneAndUpdate(filter, { $set: { movie_title, Released } }, { new: true })
updateMovie(route, req, kind) ==
  IF ~Truthy(req.id) /\ ~Truthy(req.movie_id)
  THEN {[res |-> errorHandler(HttpError(400, <<>>), route, req, 0), movies |-> movies]}
  ELSE IF filterCastFails(req)
  THEN {[res |-> errorHandler(CastError, route, req, 1), movies |-> movies]}
  ELSE {[res |-> IF o.doc = NoDoc THEN errorHandler(HttpError(404, <<>>), route, req, 1)
                 ELSE [Res(route, req, 200, kind, 1) EXCEPT !.doc = o.doc],
         movies |-> o.coll]
        : o \in findOneAndUpdate(movies, updateFilter(req),
                  <<<<"movie_title", req.movie_title>>, <<"Released", req.Released>>>>)}

\* PUT /api/movies
putMovies(req) ==
  IF ~Movie THEN {[res |-> ensureMovieConn("PUT /api/movies", req), movies |-> movies]}
  ELSE updateMovie("PUT /api/movies", req, "json")

\* The delete of DELETE /api/movies and POST /ui/movie/delete, up to the
\* success response: Movie.deleteOne(filter)
deleteMovie(route, req, okStatus, kind) ==
  IF ~Truthy(req.id) /\ ~Truthy(req.movie_id)
  THEN {[res |-> errorHandler(HttpError(400, <<>>), route, req, 0), movies |-> movies]}
  ELSE IF filterCastFails(req)
  THEN {[res |-> errorHandler(CastError, route, req, 1), movies |-> movies]}
  ELSE {[res |-> IF r.deletedCount = 0 THEN errorHandler(HttpError(404, <<>>), route, req, 1)
                 ELSE Res(route, req, okStatus, kind, 1),
         movies |-> r.coll]
        : r \in deleteOne(movies, updateFilter(req))}

\* DELETE /api/movies
deleteMovies(req) ==
  IF ~Movie THEN {[res |-> ensureMovieConn("DELETE /api/movies", req), movies |-> movies]}
  ELSE deleteMovie("DELETE /api/movies", req, 200, "json")

\* ------------------------------------------------------------- UI routes
\* GET /
home ==
  IF ~Movie THEN ensureMovieConn("GET /", EmptyReq)
  ELSE [Res("GET /", EmptyReq, 200, "render", 1)
          EXCEPT !.list = [i \in 1..Len(Limit(movies, HomeCap)) |-> normalize(movies[i])]]

\* GET /ui/movie/show
uiMovieShow(req) ==
  IF ~Movie THEN {ensureMovieConn("GET /ui/movie/show", req)}
  ELSE IF Truthy(req.id)
  THEN IF ~IsObjectIdString(req.id)
       THEN {errorHandler(CastError, "GET /ui/movie/show", req, 1)}
       ELSE {[Res("GET /ui/movie/show", req, 200, "render", 1) EXCEPT !.doc = doc]
             : doc \in findOne(movies, IdFilter(req.id))}
  ELSE IF Truthy(req.movie_id)
  THEN {[Res("GET /ui/movie/show", req, 200, "render", 1) EXCEPT !.doc = doc]
        : doc \in findOne(movies, movieIdFilter(req.movie_id))}
  ELSE {Res("GET /ui/movie/show", req, 200, "render", 0)}

\* GET /ui/movie/new, GET /ui/movie/update, GET /ui/movie/delete
uiMovieForm(route) == Res(route, EmptyReq, 200, "render", 0)

\* POST /ui/movie/new
uiMovieNew(req, oid) ==
  IF ~Movie THEN [res |-> ensureMovieConn("POST /ui/movie/new", req), movies |-> movies]
  ELSE [res |-> [Res("POST /ui/movie/new", req, 302, "redirect", 1) EXCEPT !.created = oid],
        movies |-> Append(movies, createMovie(oid, req.movie_id, req.movie_title, req.Released))]

\* POST /ui/movie/update
uiMovieUpdate(req) ==
  IF ~Movie THEN {[res |-> ensureMovieConn("POST /ui/movie/update", req), movies |-> movies]}
  ELSE updateMovie("POST /ui/movie/update", req, "render")

\* POST /ui/movie/delete
uiMovieDelete(req) ==
  IF ~Movie THEN {[res |-> ensureMovieConn("POST /ui/movie/delete", req), movies |-> movies]}
  ELSE deleteMovie("POST /ui/movie/delete", req, 302, "redirect")

\* GET /healthz
healthz == Res("GET /healthz", EmptyReq, 200, "json", 0)

\* The catch-all: an error with status 404 handed to the error handler.
routeNotFound == errorHandler(HttpError(404, <<>>), "unknown", EmptyReq, 0)

\* ----------------------------------------------------- initial state
\* Documents other tools left in the movies collection, of the shapes the
\* normalizer's alias lists are written for.
LegacyDocs(k) ==
  { DocOf(<<<<"_id", Oid(k)>>>>),
    DocOf(<<<<"_id", Oid(k)>>, <<"title", Str(<<"T">>)>>, <<"year", Num(1999)>>>>),
    DocOf(<<<<"_id", Oid(k)>>, <<"movie_title", Null>>, <<"Title", Str(<<"T">>)>>,
            <<"movie_id", Num(0)>>, <<"id", Num(7)>>,
            <<"Released", Str(<<>>)>>, <<"year", Num(1999)>>>>),
    DocOf(<<<<"_id", Oid(k)>>, <<"movie_id", Num(42)>>, <<"MovieTitle", Str(<<"M">>)>>,
            <<"release_date", Str(<<"R">>)>>>>) }

RECURSIVE SeedsOfLen(_)
SeedsOfLen(k) ==
  IF k = 0 THEN {<<>>}
  ELSE {Append(ms, d) : ms \in SeedsOfLen(k - 1), d \in LegacyDocs(k)}

Seeds == UNION {SeedsOfLen(k) : k \in 0..MaxSeed}

NoRes == Res("none", EmptyReq, 0, "none", 0)

Init ==
  /\ Movie \in BOOLEAN
  /\ movies \in (IF Movie THEN Seeds ELSE {<<>>})
  /\ employees = <<>>
  /\ nextOid = Len(movies) + 1
  /\ pending = {}
  /\ res = NoRes
  /\ empCreated = {}
  /\ delOk = [k \in 1..MaxOid |-> 0]

\* ------------------------------------------------------- request inputs
IdParams == {Str(<<"a", "b", "c">>)} \cup {Str(OidStr(k)) : k \in 1..MaxOid}
MovieIdBodies == {Num(42), Str(<<"4", "2">>), Str(<<"x">>)}

Body(name, salary, age) ==
  [EmptyReq EXCEPT !.name = name, !.salary = salary, !.age = age]

EmployeeBodies ==
  { Body(Str(<<"A">>), Num(5), Num(3)),
    Body(Str(<<" ", "A">>), Str(<<"5">>), Num(3)),
    Body(Str(<<" ">>), Num(5), Num(3)),
    Body(Str(<<"A">>), Str(<<"x">>), Num(3)),
    Body(Str(<<" ">>), Str(<<"x">>), Undef),
    Body(Undef, Num(5), Undef) }

EmployeeUpdates ==
  {[EmptyReq EXCEPT !.id = i, !.name = Str(<<"B">>), !.salary = sal] :
     i \in IdParams, sal \in {Undef, Str(<<"x">>)}}

MovieBodies ==
  {[EmptyReq EXCEPT !.movie_id = m, !.movie_title = t] :
     m \in MovieIdBodies, t \in {Str(<<"T">>), Str(<<" ">>), Undef}}

MovieForms ==
  {[EmptyReq EXCEPT !.movie_id = m, !.movie_title = Str(<<"T">>)] :
     m \in {Str(<<"4", "2">>), Str(<<>>)}}

\* id, movie_id: one of them, neither, or both.
Selectors ==
  {[EmptyReq EXCEPT !.id = i] : i \in IdParams}
  \cup {[EmptyReq EXCEPT !.movie_id = m] :
          m \in {Str(<<"4", "2">>), Str(<<"0", "4", "2">>), Str(<<"x">>), Str(<<>>)}}
  \cup {[EmptyReq EXCEPT !.id = Str(OidStr(1)), !.movie_id = Str(<<"4", "2">>)]}

FindQueries ==
  Selectors
  \cup {[EmptyReq EXCEPT !.title = Str(<<"T">>)],
        [EmptyReq EXCEPT !.movie_id = Str(<<"x">>), !.title = Str(<<"T">>)]}

MovieUpdates == {[r EXCEPT !.movie_title = Str(<<"U">>)] : r \in Selectors}

\* What the forms of the UI send: strings, empty when a field is left blank.
FormSelectors ==
  { [EmptyReq EXCEPT !.id = Str(OidStr(1)), !.movie_id = Str(<<>>)],
    [EmptyReq EXCEPT !.id = Str(<<"a", "b", "c">>), !.movie_id = Str(<<>>)],
    [EmptyReq EXCEPT !.id = Str(<<>>), !.movie_id = Str(<<"4", "2">>)],
    [EmptyReq EXCEPT !.id = Str(<<>>), !.movie_id = Str(<<"7">>)],
    [EmptyReq EXCEPT !.id = Str(<<>>), !.movie_id = Str(<<>>)] }

FormUpdates == {[r EXCEPT !.movie_title = Str(<<"U">>)] : r \in FormSelectors}

\* ---------------------------------------------------------------- steps
EmployeesOnly(r, emps) ==
  /\ res' = r
  /\ employees' = emps
  /\ UNCHANGED <<Movie, movies, nextOid, pending, empCreated>>

MoviesOnly(r, ms) ==
  /\ res' = r
  /\ movies' = ms
  /\ UNCHANGED <<Movie, employees, pending, empCreated, delOk>>

ReadOnly(r) ==
  /\ res' = r
  /\ UNCHANGED <<Movie, employees, movies, nextOid, pending, empCreated, delOk>>

GetEmployees ==
  /\ res = NoRes
  /\ ReadOnly(getEmployees)

GetEmployee ==
  /\ res = NoRes
  /\ \E i \in IdParams : \E r \in getEmployee([EmptyReq EXCEPT !.id = i]) : ReadOnly(r)

PostEmployees ==
  /\ res = NoRes
  /\ \E req \in EmployeeBodies :
      LET o == postEmployees(req, nextOid)
      IN /\ o.created => (nextOid <= MaxOid /\ Cardinality(pending) < MaxPending)
         /\ res' = o.res
         /\ employees' = o.employees
         /\ nextOid' = IF o.created THEN nextOid + 1 ELSE nextOid
         /\ pending' = IF o.created THEN pending \cup {[req |-> req, created |-> nextOid]}
                       ELSE pending
         /\ empCreated' = IF o.created THEN empCreated \cup {nextOid} ELSE empCreated
         /\ UNCHANGED <<Movie, movies, delOk>>

PostEmployeesFind ==
  /\ res = NoRes
  /\ \E p \in pending :
      /\ res' = postEmployeesFind(p)
      /\ pending' = pending \ {p}
      /\ UNCHANGED <<Movie, employees, movies, nextOid, empCreated, delOk>>

PutEmployee ==
  /\ res = NoRes
  /\ \E req \in EmployeeUpdates : \E o \in putEmployee(req) :
      EmployeesOnly(o.res, o.employees) /\ UNCHANGED delOk

DeleteEmployee ==
  /\ res = NoRes
  /\ \E i \in IdParams : \E o \in deleteEmployee([EmptyReq EXCEPT !.id = i]) :
      /\ EmployeesOnly(o.res, o.employees)
      /\ delOk' = IF o.res.status = 200
                  THEN [delOk EXCEPT ![castObjectId(i).n] = @ + 1]
                  ELSE delOk

GetMovies ==
  /\ res = NoRes
  /\ ReadOnly(getMovies)

GetMoviesFind ==
  /\ res = NoRes
  /\ \E req \in FindQueries : \E r \in getMoviesFind(req) : ReadOnly(r)

PostMovies ==
  /\ res = NoRes
  /\ \E req \in MovieBodies :
      LET o == postMovies(req, nextOid)
      IN /\ o.movies # movies => nextOid <= MaxOid
         /\ MoviesOnly(o.res, o.movies)
         /\ nextOid' = IF o.movies # movies THEN nextOid + 1 ELSE nextOid

PutMovies ==
  /\ res = NoRes
  /\ \E req \in MovieUpdates : \E o \in putMovies(req) :
      MoviesOnly(o.res, o.movies) /\ UNCHANGED nextOid

DeleteMovies ==
  /\ res = NoRes
  /\ \E req \in Selectors : \E o \in deleteMovies(req) :
      MoviesOnly(o.res, o.movies) /\ UNCHANGED nextOid

Home ==
  /\ res = NoRes
  /\ ReadOnly(home)

UiMovieShow ==
  /\ res = NoRes
  /\ \E req \in FormSelectors : \E r \in uiMovieShow(req) : ReadOnly(r)

UiMovieForm ==
  /\ res = NoRes
  /\ \E route \in {"GET /ui/movie/new", "GET /ui/movie/update", "GET /ui/movie/delete"} :
      ReadOnly(uiMovieForm(route))

UiMovieNew ==
  /\ res = NoRes
  /\ \E req \in MovieForms :
      LET o == uiMovieNew(req, nextOid)
      IN /\ o.movies # movies => nextOid <= MaxOid
         /\ MoviesOnly(o.res, o.movies)
         /\ nextOid' = IF o.movies # movies THEN nextOid + 1 ELSE nextOid

UiMovieUpdate ==
  /\ res = NoRes
  /\ \E req \in FormUpdates : \E o \in uiMovieUpdate(req) :
      MoviesOnly(o.res, o.movies) /\ UNCHANGED nextOid

UiMovieDelete ==
  /\ res = NoRes
  /\ \E req \in FormSelectors : \E o \in uiMovieDelete(req) :
      MoviesOnly(o.res, o.movies) /\ UNCHANGED nextOid

Healthz ==
  /\ res = NoRes
  /\ ReadOnly(healthz)

UnknownRoute ==
  /\ res = NoRes
  /\ ReadOnly(routeNotFound)

\* The segment has run to completion and its response is sent: the event loop
\* is free to run the next segment.
EventLoopIdle ==
  /\ res # NoRes
  /\ res' = NoRes
  /\ UNCHANGED <<Movie, employees, movies, nextOid, pending, empCreated, delOk>>

\* Node runs one synchronous segment of a handler at a time, to completion:
\* every route below starts from an idle event loop (res = NoRes).
Next ==
  \/ GetEmployees
  \/ GetEmployee
  \/ PostEmployees
  \/ PostEmployeesFind
  \/ PutEmployee
  \/ DeleteEmployee
  \/ GetMovies
  \/ GetMoviesFind
  \/ PostMovies
  \/ PutMovies
  \/ DeleteMovies
  \/ Home
  \/ UiMovieShow
  \/ UiMovieForm
  \/ UiMovieNew
  \/ UiMovieUpdate
  \/ UiMovieDelete
  \/ Healthz
  \/ UnknownRoute
  \/ EventLoopIdle

Spec == Init /\ [][Next]_vars

\* ------------------------------------------------------- claim helpers
MovieRestRoutes ==
  {"GET /api/movies", "GET /api/movies/find", "POST /api/movies",
   "PUT /api/movies", "DELETE /api/movies"}

MovieUiRoutes ==
  {"GET /", "GET /ui/movie/show", "GET /ui/movie/new", "POST /ui/movie/new",
   "GET /ui/movie/update", "POST /ui/movie/update",
   "GET /ui/movie/delete", "POST /ui/movie/delete"}

\* The request selects by movie_id: no usable id, a non-empty movie_id.
ByMovieId(req) == ~Truthy(req.id) /\ Truthy(req.movie_id)

CountId(list, k) ==
  Cardinality({i \in 1..Len(list) : Get(list[i], "_id") = Oid(k)})

\* The value of the first alias that is present and not null, else fb.
FirstPresent(d, names, fb) ==
  IF \E i \in 1..Len(names) : NotNullish(Get(d, names[i]))
  THEN Get(d, names[CHOOSE i \in 1..Len(names) :
                      /\ NotNullish(Get(d, names[i]))
                      /\ \A j \in 1..(i - 1) : ~NotNullish(Get(d, names[j]))])
  ELSE fb

\* movie_id equals the number a digit string s denotes, or s itself.
IdEquals(d, s) ==
  \/ Get(d, "movie_id") = s
  \/ /\ AllDigits(s.s)
     /\ Get(d, "movie_id") = Num(DecVal(s.s))

\* s holds a character no numeric literal of the inputs' alphabet holds.
HasLetter(v) ==
  v.t = "string" /\ \E i \in 1..Len(v.s) : ~IsDigit(v.s[i]) /\ v.s[i] \notin {" ", "+", "-"}

Blank(v) == v.t = "undefined" \/ (v.t = "string" /\ \A i \in 1..Len(v.s) : v.s[i] = " ")
NonNumeric(v) ==
  v.t = "undefined" \/ (v.t = "string" /\ (v.s = <<>> \/ \E i \in 1..Len(v.s) : ~IsDigit(v.s[i])))

ViolatedEmployeeFields(req) ==
  (IF Blank(req.name) THEN <<"name">> ELSE <<>>)
  \o (IF NonNumeric(req.salary) THEN <<"salary">> ELSE <<>>)
  \o (IF NonNumeric(req.age) THEN <<"age">> ELSE <<>>)

\* b is a with at most one document changed or removed.
ChangedAtMostOne(a, b) ==
  \/ Len(b) = Len(a) /\ Cardinality({i \in 1..Len(a) : a[i] # b[i]}) <= 1
  \/ Len(b) = Len(a) - 1 /\ \E i \in 1..Len(a) : b = RemoveAt(a, i)

\* No document of coll is the one req addresses: by id when id is given, else
\* by movie_id (as number or as string), else by title.
NoTarget(coll, req) ==
  IF Truthy(req.id)
  THEN \A i \in 1..Len(coll) : Str(OidStr(coll[i]["_id"].n)) # req.id
  ELSE IF Truthy(req.movie_id)
  THEN \A i \in 1..Len(coll) : ~IdEquals(coll[i], req.movie_id)
  ELSE \A i \in 1..Len(coll) :
         Get(coll[i], "movie_title") # req.title /\ Get(coll[i], "title") # req.title

EmployeeRoutes ==
  {"GET /api/employees", "GET /api/employees/:id", "POST /api/employees",
   "PUT /api/employees/:id", "DELETE /api/employees/:id"}

ReadRoutes ==
  {"GET /api/employees", "GET /api/employees/:id", "GET /api/movies",
   "GET /api/movies/find", "GET /", "GET /ui/movie/show"}

Succeeded(r) == r.status \in {200, 201, 302}

\* b is a with one document appended.
AddedOne(a, b) == Len(b) = Len(a) + 1 /\ SubSeq(b, 1, Len(a)) = a

\* b is a with one document removed.
RemovedOne(a, b) == \E i \in 1..Len(a) : b = RemoveAt(a, i)

\* b is a with exactly one document different.
ChangedExactlyOne(a, b) ==
  Len(b) = Len(a) /\ Cardinality({i \in 1..Len(a) : a[i] # b[i]}) = 1

\* b is a with one document replaced by doc, all others as they were.
WroteOne(a, b, doc) == \E i \in 1..Len(a) : b = [a EXCEPT ![i] = doc]

\* The indexes of the documents a selector addresses.
HitsById(coll, id) ==
  {i \in 1..Len(coll) : Str(OidStr(coll[i]["_id"].n)) = id}
HitsByMovieId(coll, m) == {i \in 1..Len(coll) : IdEquals(coll[i], m)}
HitsByTitle(coll, t) ==
  {i \in 1..Len(coll) : Get(coll[i], "movie_title") = t \/ Get(coll[i], "title") = t}

\* No selector is given; title counts only where the route reads it.
NoneGiven(req, withTitle) ==
  ~Truthy(req.id) /\ ~Truthy(req.movie_id) /\ ~(withTitle /\ Truthy(req.title))

\* The documents the first given selector addresses: id, else movie_id, else
\* title.
Selected(coll, req, withTitle) ==
  IF Truthy(req.id) THEN HitsById(coll, req.id)
  ELSE IF Truthy(req.movie_id) THEN HitsByMovieId(coll, req.movie_id)
  ELSE IF withTitle /\ Truthy(req.title) THEN HitsByTitle(coll, req.title)
  ELSE {}

\* --------------------------------------------------------------- claims
\* C1: with the movies store unconfigured, every movie REST operation answers
\* 503 and issues no store call, whatever its parameters and body.
C1_RestUnconfigured503 ==
  (~Movie /\ res.route \in MovieRestRoutes) =>
    (res.status = 503 /\ res.calls = 0 /\ movies = <<>>)

\* C1 witness: an unconfigured POST /api/movies whose body fails validation.
C1_Witness ==
  /\ ~Movie
  /\ res.route = "POST /api/movies"
  /\ Blank(res.req.movie_title)
  /\ res.status = 503

\* C2 as claimed: with the movies store unconfigured, every movie route, REST
\* and UI alike, answers 503.
C2_AllMovieRoutes503 ==
  (~Movie /\ res.route \in MovieRestRoutes \cup MovieUiRoutes) => res.status = 503

\* C3: GET / shows, for every document and each display attribute, the value
\* of the first alias that is present and not null, and the fallback when none
\* is; a document with only title and year shows them as movie_title and
\* Released, and a document with no alias shows "(no title)".
C3_NormalizerFirstPresent ==
  (res.route = "GET /" /\ res.status = 200) =>
    /\ Len(res.list) = Len(movies)
    /\ \A i \in 1..Len(res.list) :
         /\ res.list[i]["movie_title"] = FirstPresent(movies[i], titleNames, NoTitle)
         /\ res.list[i]["movie_id"] = FirstPresent(movies[i], idNames, Str(<<>>))
         /\ res.list[i]["Released"] = FirstPresent(movies[i], releasedNames, Str(<<>>))
         /\ DOMAIN movies[i] = {"_id", "title", "year"} =>
              /\ res.list[i]["movie_title"] = movies[i]["title"]
              /\ res.list[i]["Released"] = movies[i]["year"]
         /\ DOMAIN movies[i] = {"_id"} => res.list[i]["movie_title"] = NoTitle

\* C3 witness: GET / over a document whose first id alias holds 0 and whose
\* movie_title is null.
C3_Witness ==
  /\ res.route = "GET /"
  /\ \E i \in 1..Len(res.list) :
       /\ Get(movies[i], "movie_title") = Null
       /\ res.list[i]["movie_id"] = Num(0)
       /\ res.list[i]["movie_title"] = Str(<<"T">>)

\* C4: the filter of movieIdFilter(s) matches a stored movie exactly when its
\* movie_id is the number s denotes or the string s; a lookup by "42" finds a
\* document whose movie_id is 42 or "42" and no other.
C4_FilterNumberOrString ==
  /\ \A s \in {Str(<<"4", "2">>), Str(<<"0", "4", "2">>), Str(<<"x">>), Str(<<"7">>)} :
       \A i \in 1..Len(movies) :
         Matches(movies[i], movieIdFilter(s)) <=> IdEquals(movies[i], s)
  /\ (Movie /\ res.route = "GET /api/movies/find" /\ ByMovieId(res.req)) =>
       /\ res.status = 200 <=> \E i \in 1..Len(movies) : IdEquals(movies[i], res.req.movie_id)
       /\ res.status = 200 => IdEquals(res.doc, res.req.movie_id)
       /\ res.status # 200 => res.status = 404
       /\ (res.req.movie_id = Str(<<"4", "2">>) /\ res.status = 200) =>
            Get(res.doc, "movie_id") \in {Num(42), Str(<<"4", "2">>)}

\* C4 witness: a lookup by "42" that found the string-typed document while a
\* number-typed 42 is stored too.
C4_Witness ==
  /\ res.route = "GET /api/movies/find"
  /\ res.req.movie_id = Str(<<"4", "2">>)
  /\ res.status = 200
  /\ Get(res.doc, "movie_id") = Str(<<"4", "2">>)
  /\ \E i \in 1..Len(movies) : Get(movies[i], "movie_id") = Num(42)

\* C5: for an identifier that is no number, the numeric branch matches no
\* stored document and the lookup raises no error: what is found has the raw
\* string as its movie_id.
C5_UnparseableNeverMatchesNumber ==
  /\ \A i \in 1..Len(movies) :
       ~Matches(movies[i], <<movieIdFilter(Str(<<"x">>))[1]>>)
  /\ (Movie /\ ByMovieId(res.req) /\ HasLetter(res.req.movie_id)
        /\ res.route \in {"GET /api/movies/find", "GET /ui/movie/show",
                          "PUT /api/movies", "POST /ui/movie/update"}) =>
       /\ res.status \in {200, 404}
       /\ res.doc # NoDoc => Get(res.doc, "movie_id") = res.req.movie_id

\* C5 witness: a lookup by "x" that found the document stored under "x" while
\* a document with movie_id 0 is stored too.
C5_Witness ==
  /\ res.route = "GET /api/movies/find"
  /\ res.req.movie_id = Str(<<"x">>)
  /\ res.status = 200
  /\ Get(res.doc, "movie_id") = Str(<<"x">>)
  /\ \E i \in 1..Len(movies) : Get(movies[i], "movie_id") = Num(0)

\* C6: a valid POST /api/employees creates exactly one record with the
\* request's fields, and the list the POST returns and any later list hold
\* every created record that was not deleted since exactly once.
C6_CreateThenListOnce ==
  /\ Len(employees) = Cardinality({k \in empCreated : delOk[k] = 0})
  /\ \A k \in empCreated : delOk[k] = 0 => CountId(employees, k) = 1
  /\ (res.route = "POST /api/employees" /\ res.kind = "await") =>
       \E i \in 1..Len(employees) :
         /\ employees[i]["_id"] = Oid(res.created)
         /\ employees[i]["name"] = Str(Trim(res.req.name.s))
         /\ employees[i]["salary"] = Num(DecVal(ToStr(res.req.salary)))
         /\ employees[i]["age"] = Num(DecVal(ToStr(res.req.age)))
  /\ ((res.route = "POST /api/employees" /\ res.status = 200)
        \/ res.route = "GET /api/employees") =>
       \A k \in empCreated : delOk[k] = 0 => CountId(res.list, k) = 1

\* C6 witness: the POST's own list holding the record it created.
C6_Witness ==
  /\ res.route = "POST /api/employees"
  /\ res.status = 200
  /\ delOk[res.created] = 0
  /\ CountId(res.list, res.created) = 1

\* C7 as claimed: DELETE /api/employees/:id with an id that identifies no
\* stored employee answers 404 and leaves the store unchanged.
C7_DeleteMissingIs404 ==
  [][(res'.route = "DELETE /api/employees/:id"
        /\ \A i \in 1..Len(employees) : Str(OidStr(employees[i]["_id"].n)) # res'.req.id)
      => (res'.status = 404 /\ employees' = employees)]_vars

\* C8: an update or delete of a movie changes at most one stored record, also
\* when several records match the movie_id filter.
C8_AtMostOneRecordChanged ==
  [][res'.route \in {"PUT /api/movies", "DELETE /api/movies",
                     "POST /ui/movie/update", "POST /ui/movie/delete"}
      => ChangedAtMostOne(movies, movies')]_vars

\* C8 witness: an update by movie_id "42" that wrote one of two matching
\* records and left the other as it was.
C8_Witness ==
  /\ res.route = "PUT /api/movies"
  /\ res.status = 200
  /\ ByMovieId(res.req)
  /\ \E i, j \in 1..Len(movies) :
       /\ IdEquals(movies[i], res.req.movie_id)
       /\ IdEquals(movies[j], res.req.movie_id)
       /\ Get(movies[i], "movie_title") = Str(<<"U">>)
       /\ Get(movies[j], "movie_title") # Str(<<"U">>)

\* C9: a create request that fails required-field validation answers 400 with
\* the violated fields as details and leaves the store unchanged.
C9_InvalidCreateIs400 ==
  [][/\ (res'.route = "POST /api/employees" /\ ViolatedEmployeeFields(res'.req) # <<>>) =>
          /\ res'.status = 400
          /\ res'.details = ViolatedEmployeeFields(res'.req)
          /\ employees' = employees
     /\ (Movie /\ res'.route = "POST /api/movies" /\ Blank(res'.req.movie_title)) =>
          /\ res'.status = 400
          /\ res'.details = <<"movie_title">>
          /\ movies' = movies]_vars

\* C9 witness: a POST /api/employees refused for all three fields while the
\* store holds a record.
C9_Witness ==
  /\ res.route = "POST /api/employees"
  /\ res.status = 400
  /\ res.details = <<"name", "salary", "age">>
  /\ Len(employees) = 1

\* C10 as claimed: with the movies store configured, every movie operation
\* that addresses a record by identifier answers 404 when no stored record
\* matches, and leaves the store unchanged.
C10_MissingTargetIs404 ==
  [][(/\ Movie
      /\ res'.route \in {"GET /api/movies/find", "PUT /api/movies", "DELETE /api/movies",
                         "GET /ui/movie/show", "POST /ui/movie/update", "POST /ui/movie/delete"}
      /\ (Truthy(res'.req.id) \/ Truthy(res'.req.movie_id) \/ Truthy(res'.req.title))
      /\ NoTarget(movies, res'.req))
      => (res'.status = 404 /\ movies' = movies)]_vars

\* C11: every error that reaches the error handler yields the JSON error body
\* with error = true, the HTTP status equal to the body's status field, and
\* that status the error's own when it carries one, 500 otherwise; a request
\* no route matches reaches the handler with status 404 and is answered 404.
C11_ErrorsTranslated ==
  /\ res.thrown # NoErr =>
       /\ res.kind = "error"
       /\ res.bodyError
       /\ res.status = res.bodyStatus
       /\ res.status = IF res.thrown # 0 THEN res.thrown ELSE 500
  /\ res.route = "unknown" => (res.thrown = 404 /\ res.status = 404)

\* C11 witness: an error that carries no status (the cast of a malformed id)
\* answered 500 with a body that says 500.
C11_Witness ==
  /\ res.thrown = 0
  /\ res.status = 500
  /\ res.bodyStatus = 500
  /\ res.bodyError

\* C12 as claimed: every successful employee and movie REST operation issued
\* exactly one store call; list and get operations leave both stores
\* unchanged; a successful create, update or delete changes exactly one
\* record.  (Movie documents carry no updatedAt here, so a movie update is
\* held to writing one record.)
C12_ExactlyOneStoreCall ==
  [][(res'.route \in EmployeeRoutes \cup MovieRestRoutes /\ Succeeded(res'))
      => /\ res'.calls = 1
         /\ res'.route \in ReadRoutes => (employees' = employees /\ movies' = movies)
         /\ res'.route = "POST /api/movies" => AddedOne(movies, movies')
         /\ res'.route = "PUT /api/employees/:id" => ChangedExactlyOne(employees, employees')
         /\ res'.route = "PUT /api/movies" => WroteOne(movies, movies', res'.doc)
         /\ res'.route = "DELETE /api/employees/:id" => RemovedOne(employees, employees')
         /\ res'.route = "DELETE /api/movies" => RemovedOne(movies, movies')]_vars

\* C12 amended: an operation issues at most one store call, except POST
\* /api/employees, which follows its create with one read-only find; at most
\* one call of an operation writes.  List and get operations and every failed
\* operation leave both stores unchanged; a successful create adds exactly
\* one record, a successful delete removes exactly one, and a successful
\* update writes exactly one record, the one it returns, leaving every other
\* record as it was.
C12_OneWritePerOperation ==
  [][res'.route \in EmployeeRoutes \cup MovieRestRoutes \cup MovieUiRoutes
      => /\ res'.calls <= (IF res'.route = "POST /api/employees" THEN 2 ELSE 1)
         /\ (res'.route = "POST /api/employees" /\ res'.kind = "await")
              => (res'.calls = 1 /\ AddedOne(employees, employees') /\ movies' = movies)
         /\ (res'.route = "POST /api/employees" /\ res'.status = 200)
              => (res'.calls = 2 /\ employees' = employees /\ movies' = movies)
         /\ (res'.route # "POST /api/employees" /\ Succeeded(res') /\ res'.calls = 0)
              => res'.route \in {"GET /ui/movie/show", "GET /ui/movie/new",
                                 "GET /ui/movie/update", "GET /ui/movie/delete"}
         /\ (res'.route \in ReadRoutes \/ (res'.kind # "await" /\ ~Succeeded(res')))
              => (employees' = employees /\ movies' = movies)
         /\ res'.route \in EmployeeRoutes => movies' = movies
         /\ res'.route \in MovieRestRoutes \cup MovieUiRoutes => employees' = employees
         /\ (res'.route \in {"POST /api/movies", "POST /ui/movie/new"} /\ Succeeded(res'))
              => AddedOne(movies, movies')
         /\ (res'.route = "PUT /api/employees/:id" /\ Succeeded(res'))
              => WroteOne(employees, employees', res'.doc)
         /\ (res'.route \in {"PUT /api/movies", "POST /ui/movie/update"} /\ Succeeded(res'))
              => WroteOne(movies, movies', res'.doc)
         /\ (res'.route = "DELETE /api/employees/:id" /\ Succeeded(res'))
              => RemovedOne(employees, employees')
         /\ (res'.route \in {"DELETE /api/movies", "POST /ui/movie/delete"} /\ Succeeded(res'))
              => RemovedOne(movies, movies')]_vars

\* C12 witness: a POST /api/employees answered 200 after its two store calls,
\* the list it read holding the one record it created.
C12_Witness ==
  /\ res.route = "POST /api/employees"
  /\ res.status = 200
  /\ res.calls = 2
  /\ CountId(res.list, res.created) = 1

\* C13: with the movies store configured, GET /api/movies/find selects by id
\* when id is given, else by movie_id (as number or as string), else by
\* title; PUT and DELETE /api/movies select by id, else by movie_id.  With no
\* selector given the answer is 400 and no store call is made.  Only the
\* first given selector decides: when it addresses a record, that record is
\* the one returned, written or removed; when it addresses none, nothing is
\* found or changed, whatever a later selector would match.
C13_SelectorPrecedence ==
  [][(Movie /\ res'.route \in {"GET /api/movies/find", "PUT /api/movies", "DELETE /api/movies"})
      => IF NoneGiven(res'.req, res'.route = "GET /api/movies/find")
         THEN res'.status = 400 /\ res'.calls = 0 /\ movies' = movies
         ELSE /\ res'.calls = 1
              /\ Selected(movies, res'.req, res'.route = "GET /api/movies/find") = {}
                   => (res'.status \in {404, 500} /\ movies' = movies)
              /\ Selected(movies, res'.req, res'.route = "GET /api/movies/find") # {}
                   => /\ res'.status = 200
                      /\ \E i \in Selected(movies, res'.req, res'.route = "GET /api/movies/find") :
                           CASE res'.route = "GET /api/movies/find"
                                  -> res'.doc = movies[i] /\ movies' = movies
                             [] res'.route = "PUT /api/movies"
                                  -> movies' = [movies EXCEPT ![i] = res'.doc]
                             [] res'.route = "DELETE /api/movies"
                                  -> movies' = RemoveAt(movies, i)]_vars

\* C13 witness: an update that gave both id and movie_id was answered 404
\* because the id addresses no record, while a record matching the movie_id
\* is stored and was not written.
C13_Witness ==
  /\ Movie
  /\ res.route = "PUT /api/movies"
  /\ Truthy(res.req.id)
  /\ Truthy(res.req.movie_id)
  /\ res.status = 404
  /\ HitsById(movies, res.req.id) = {}
  /\ \E i \in HitsByMovieId(movies, res.req.movie_id) :
       Get(movies[i], "movie_title") # res.req.movie_title

\* C14: however DELETE /api/employees/:id requests interleave with each other
\* and with other requests, a DELETE for a stored record answers 200 and
\* removes that record and no other; a DELETE for an id whose record is gone
\* answers 404 and removes nothing; so no id is ever reported deleted twice.
C14_DeleteOncePerRecord ==
  [][res'.route = "DELETE /api/employees/:id"
      => /\ HitsById(employees, res'.req.id) # {}
              => /\ res'.status = 200
                 /\ \E i \in HitsById(employees, res'.req.id) :
                      employees' = RemoveAt(employees, i)
                 /\ delOk[castObjectId(res'.req.id).n] = 0
         /\ (IsObjectIdString(res'.req.id) /\ HitsById(employees, res'.req.id) = {})
              => (res'.status = 404 /\ employees' = employees)
         /\ (IsObjectIdString(res'.req.id) /\ delOk[castObjectId(res'.req.id).n] >= 1)
              => res'.status = 404
         /\ \A k \in DOMAIN delOk : delOk'[k] <= 1]_vars

\* C14 witness: a second DELETE for an id already reported deleted was
\* answered 404 while another employee record is still stored.
C14_Witness ==
  /\ res.route = "DELETE /api/employees/:id"
  /\ res.status = 404
  /\ IsObjectIdString(res.req.id)
  /\ delOk[castObjectId(res.req.id).n] = 1
  /\ Len(employees) >= 1

====
